---- MODULE Spec2Model ----
(***************************************************************************)
(* Model of proxy/app.py: the room availability proxy.                     *)
(*                                                                         *)
(* Text is modelled as sequences of one-character strings, instants as     *)
(* integer ticks (TicksPerMinute ticks to a minute), a polars DataFrame    *)
(* with the columns start and end as a sequence of records [start, end],   *)
(* and Python's None as the value None.                                    *)
(***************************************************************************)
EXTENDS Integers, Sequences, FiniteSets, TLC

VARIABLES
    availability,   \* the dict availability: room key -> status string
    pc,             \* position of the update_availability thread
    idx,            \* position of the for loop in rooms.items()
    request,        \* mac_address of the last get_room call, None before any
    response,       \* what the last get_room call returned
    found,          \* history: the last get_room call found its key
    served,         \* history: the last write to the key of that call
    last_write,     \* history: the record last written for each room
    age,            \* ticks since the entry of each room was written
    slept,          \* ticks spent in the time.sleep of line 98
    cycle_writes,   \* history: writes to availability[k] in the current cycle
    cycle_failed,   \* history: the try block of room k raised in this cycle
    cycle_truth,    \* history: what the calendar of room k said in this cycle
    df,             \* merge_meetings: the argument df
    now,            \* check_room_status: the argument _now
    merged,         \* outcome of merge_meetings(df)
    remerged,       \* outcome of merge_meetings applied to its own result
    sched,          \* check_room_status: the argument _df
    status,         \* what check_room_status returned
    ppc             \* position of the function-level run

vars == <<availability, pc, idx, request, response, found, served,
          last_write, age, slept, cycle_writes, cycle_failed, cycle_truth,
          df, now, merged, remerged, sched, status, ppc>>

sysvars == <<availability, pc, idx, request, response, found, served,
             last_write, age, slept, cycle_writes, cycle_failed, cycle_truth>>

\* what a get_room call leaves behind
lookupvars == <<request, response, found, served>>

\* the clock
timevars == <<age, slept>>

funvars == <<df, now, merged, remerged, sched, status, ppc>>

----------------------------------------------------------------------------
(* Bounds *)

MaxT == 3             \* instants are FirstTick .. FirstTick + MaxT
MaxLen == 3           \* rows of a DataFrame given to merge_meetings
CalLen == 2           \* rows a calendar returns to the refresh loop
SchedLen == 2         \* rows of an unmerged DataFrame given to check_room_status
TicksPerMinute == 2   \* resolution of an instant
FirstTick == 1198     \* 09:59:00 at two ticks a minute

None == -1

NL == "\n"

Instants == FirstTick .. (FirstTick + MaxT)

----------------------------------------------------------------------------
(* Text *)

Take(s, n) == SubSeq(s, 1, IF Len(s) < n THEN Len(s) ELSE n)

Digit(d) ==
    CASE d = 0 -> "0" [] d = 1 -> "1" [] d = 2 -> "2" [] d = 3 -> "3"
      [] d = 4 -> "4" [] d = 5 -> "5" [] d = 6 -> "6" [] d = 7 -> "7"
      [] d = 8 -> "8" [] d = 9 -> "9"

\* f"{t:%H:%M}": hour and minute of the day, two digits each
FormatHM(t) ==
    LET minutes == t \div TicksPerMinute
        hh == (minutes \div 60) % 24
        mm == minutes % 60
    IN  <<Digit(hh \div 10), Digit(hh % 10), ":",
          Digit(mm \div 10), Digit(mm % 10)>>

UpperChar(c) ==
    CASE c = "a" -> "A" [] c = "b" -> "B" [] c = "c" -> "C"
      [] OTHER -> c

\* str.upper()
Upper(s) == [i \in 1..Len(s) |-> UpperChar(s[i])]

STR_FREE == <<"f","r","e","e">>
STR_BUSY == <<"b","u","s","y">>
STR_ERROR == <<"e","r","r","o","r">>
STR_FREE_FOR_THE_DAY ==
    <<"f","r","e","e"," ","f","o","r"," ","t","h","e"," ","d","a","y">>
STR_FREE_UNTIL == <<"f","r","e","e"," ","u","n","t","i","l"," ">>
STR_BOOKED_UNTIL == <<"b","o","o","k","e","d"," ","u","n","t","i","l"," ">>
STR_NO_DATA ==
    <<"N","o"," ","d","a","t","a"," ","a","v","a","i","l","a","b","l","e">>
STR_UNKNOWN_ROOM == <<"U","n","k","n","o","w","n"," ","R","o","o","m">>

\* an exception: its class and str(e)
Exc(type, msg) == [type |-> type, msg |-> msg]

\* str(e) of the TypeError of  row[COL_START] <= current_end  with
\* current_end None
MsgTypeErrorLE ==
    <<"'","<","=","'"," ","n","o","t"," ","s","u","p","p","o","r","t","e",
      "d"," ","b","e","t","w","e","e","n"," ","i","n","s","t","a","n","c",
      "e","s"," ","o","f"," ","'","d","a","t","e","t","i","m","e",".","d",
      "a","t","e","t","i","m","e","'"," ","a","n","d"," ","'","N","o","n",
      "e","T","y","p","e","'">>

\* str(e) of the TypeError of  max(current_end, row[COL_END])  with
\* row[COL_END] None
MsgTypeErrorGT ==
    <<"'",">","'"," ","n","o","t"," ","s","u","p","p","o","r","t","e","d",
      " ","b","e","t","w","e","e","n"," ","i","n","s","t","a","n","c","e",
      "s"," ","o","f"," ","'","N","o","n","e","T","y","p","e","'"," ","a",
      "n","d"," ","'","d","a","t","e","t","i","m","e",".","d","a","t","e",
      "t","i","m","e","'">>

TypeErrorLE == Exc("TypeError", MsgTypeErrorLE)

TypeErrorGT == Exc("TypeError", MsgTypeErrorGT)

NoExc == Exc("", <<>>)

----------------------------------------------------------------------------
(* merge_meetings *)

\* one row as get_todays_events appends it: end is None without DTEND
Rows == { [start |-> s, end |-> e] : s \in Instants, e \in Instants \cup {None} }

\* the rows of an occurrence: DTSTART present and not after DTEND
Intervals == { r \in Rows : r.end = None \/ r.start <= r.end }

SeqsUpTo(S, n) == UNION { [1..k -> S] : k \in 0..n }

Returned(d) == [raised |-> FALSE, df |-> d, exc |-> NoExc]

Raised(e) == [raised |-> TRUE, df |-> <<>>, exc |-> e]

\* df.sort(COL_START): any order of the rows with ascending start; the
\* order of rows with equal start is not fixed by polars
Sorts(d) ==
    LET n == Len(d)
        perms == { p \in [1..n -> 1..n] : \A i, j \in 1..n : i # j => p[i] # p[j] }
    IN  { [i \in 1..n |-> d[p[i]]] : p \in
            { q \in perms : \A i \in 1..n, j \in 1..n :
                i < j => d[q[i]].start <= d[q[j]].start } }

\* variant of line 46 with < in place of <=
FusesLax(row, current_end) == row.start < current_end

\* the test of line 46
Fuses(row, current_end) == row.start <= current_end

\* variant of line 47 without the max
ExtendLast(current_end, row_end) == row_end

\* the new current_end of line 47: max(current_end, row[COL_END])
Extend(current_end, row_end) ==
    IF row_end > current_end THEN row_end ELSE current_end

\* merged.append of lines 49 and 52
Flush(acc, current_start, current_end) ==
    Append(acc, [start |-> current_start, end |-> current_end])

\* variant of line 52 that appends nothing
FinalFlushNothing(acc, current_start, current_end) == acc

\* line 52: the accumulator is flushed after the loop
FinalFlush(acc, current_start, current_end) ==
    Flush(acc, current_start, current_end)

RECURSIVE Sweep(_, _, _, _, _)
\* the for loop of lines 45-50 from row k on, then lines 52-54
Sweep(d, k, current_start, current_end, acc) ==
    IF k > Len(d)
    THEN Returned(FinalFlush(acc, current_start, current_end))
    ELSE LET row == d[k] IN
         IF current_end = None
         THEN Raised(TypeErrorLE)
         ELSE IF Fuses(row, current_end)
              THEN IF row.end = None
                   THEN Raised(TypeErrorGT)
                   ELSE Sweep(d, k + 1, current_start,
                              Extend(current_end, row.end), acc)
              ELSE Sweep(d, k + 1, row.start, row.end,
                         Flush(acc, current_start, current_end))

\* merge_meetings on a DataFrame whose sort came out as sorted
MergeSorted(sorted) == Sweep(sorted, 1, sorted[1].start, sorted[1].end, <<>>)

\* the outcomes of merge_meetings(d)
merge_meetings(d) ==
    IF Len(d) = 0 THEN {Returned(d)}
    ELSE { MergeSorted(s) : s \in Sorts(d) }

----------------------------------------------------------------------------
(* check_room_status *)

SetMin(S) == CHOOSE x \in S : \A y \in S : x <= y

SetMax(S) == CHOOSE x \in S : \A y \in S : x >= y

\* variant of line 62 with >= on the end column
EndsAfterLax(r, t) == r.end # None /\ r.end >= t

\* _df[COL_END] > _now: a comparison with a null of the column is null,
\* and filter drops the row
EndsAfter(r, t) == r.end # None /\ r.end > t

\* variant of line 70 with >= on the start column
StartsAfterLax(r, t) == r.start >= t

\* _df[COL_START] > _now
StartsAfter(r, t) == r.start > t

Active(r, t) == r.start <= t /\ EndsAfter(r, t)

\* the free branch, lines 70-77
FreeDetail(d, t) ==
    LET later == { d[i].start : i \in { j \in 1..Len(d) : StartsAfter(d[j], t) } }
    IN  IF later = {} THEN STR_FREE_FOR_THE_DAY
        ELSE STR_FREE_UNTIL \o FormatHM(SetMin(later))

\* variant of line 67 taking max() of the column
BusyDetailMax(d, t) ==
    LET ends == { d[i].end : i \in { j \in 1..Len(d) : EndsAfter(d[j], t) } }
    IN  STR_BOOKED_UNTIL \o FormatHM(SetMax(ends))

\* the busy branch, lines 67-68
BusyDetail(d, t) ==
    LET ends == { d[i].end : i \in { j \in 1..Len(d) : EndsAfter(d[j], t) } }
    IN  STR_BOOKED_UNTIL \o FormatHM(SetMin(ends))

check_room_status(d, t) ==
    IF Len(d) = 0
    THEN <<STR_FREE, STR_FREE_FOR_THE_DAY>>
    ELSE IF \E i \in 1..Len(d) : Active(d[i], t)
         THEN <<STR_BUSY, BusyDetail(d, t)>>
         ELSE <<STR_FREE, FreeDetail(d, t)>>

----------------------------------------------------------------------------
(* Configuration: rooms.yml as loaded by lines 107-113 *)

Config ==
    << [mac_address |-> <<"a">>, name |-> <<"T","u","l","i","p">>],
       [mac_address |-> <<"B">>, name |-> <<"R","o","s","e">>] >>

\* the keys of rooms in insertion order: rooms.update({mac.upper(): room})
RoomKeys == [i \in 1..Len(Config) |-> Upper(Config[i].mac_address)]

RoomKeySet == { RoomKeys[i] : i \in 1..Len(RoomKeys) }

\* the dict rooms; a later entry with the same key replaces an earlier one
rooms ==
    [k \in RoomKeySet |->
        Config[CHOOSE i \in 1..Len(Config) :
                  /\ Upper(Config[i].mac_address) = k
                  /\ \A j \in 1..Len(Config) :
                        Upper(Config[j].mac_address) = k => j <= i]]

\* the mac_address values a device may ask for
Requests == { <<"a">>, <<"A">>, <<"b">>, <<"B">>, <<"c">> }

----------------------------------------------------------------------------
(* get_todays_events *)

Msg404 ==
    <<"4","0","4"," ","C","l","i","e","n","t"," ","E","r","r","o","r",":",
      " ","N","o","t"," ","F","o","u","n","d"," ","f","o","r"," ","u","r",
      "l",":"," ","h","t","t","p",":","/","/","x","/","a">>

\* a message that quotes text of two lines
MsgTwoLines == <<"b","a","d",":"," ","x",NL,"y">>

\* what requests.get, raise_for_status, from_ical and the event loop raise:
\* a long message, an empty one and one with a line break in it
FetchErrors ==
    { Exc("HTTPError", Msg404), Exc("ConnectionError", <<>>),
      Exc("ValueError", MsgTwoLines) }

\* the DataFrames get_todays_events returns to the refresh loop
Calendars == SeqsUpTo(Intervals, CalLen)

----------------------------------------------------------------------------
(* update_availability and get_room *)

\* line 94
StatusRecord(room, free_busy, message) ==
    room.name \o <<NL>> \o free_busy \o <<NL>> \o message \o <<NL>>

\* variant of line 97 without the [:30]
ErrorRecordWhole(room, e) ==
    room.name \o <<NL>> \o STR_ERROR \o <<NL>> \o e.msg \o <<NL>>

\* line 97
ErrorRecord(room, e) ==
    room.name \o <<NL>> \o STR_ERROR \o <<NL>> \o Take(e.msg, 30) \o <<NL>>

\* variant of line 95 that catches the errors of requests only
CatchesRequestsOnly(e) == e.type \in {"HTTPError", "ConnectionError"}

\* line 95: except Exception
Catches(e) == TRUE

\* variant of lines 94 and 97 with dict.setdefault
PutIfAbsent(f, k, v) ==
    [x \in DOMAIN f \cup {k} |-> IF x \in DOMAIN f THEN f[x] ELSE v]

\* availability[k] = v
Put(f, k, v) == [x \in DOMAIN f \cup {k} |-> IF x = k THEN v ELSE f[x]]

Sentinel ==
    STR_UNKNOWN_ROOM \o <<NL>> \o STR_FREE \o <<NL>> \o STR_NO_DATA \o <<NL>>

\* what the web server answers when the view function raises
InternalServerError == <<"5","0","0">>

\* variant of line 104 that indexes the dict
get_room_index(avail, mac_address) ==
    IF Upper(mac_address) \in DOMAIN avail
    THEN avail[Upper(mac_address)]
    ELSE InternalServerError

\* variant of line 104 without the upper()
get_room_exact(avail, mac_address) ==
    IF mac_address \in DOMAIN avail
    THEN avail[mac_address]
    ELSE Sentinel

\* line 104
get_room(avail, mac_address) ==
    IF Upper(mac_address) \in DOMAIN avail
    THEN avail[Upper(mac_address)]
    ELSE Sentinel

\* history: what the calendar of a room said, stated on its raw rows
Truth(d, t) ==
    LET S == { d[i] : i \in 1..Len(d) }
        holds(r) == r.end # None /\ r.start <= t /\ t < r.end
        meets(a, b) == a.end # None /\ b.end # None /\ a.start <= b.end /\ b.start <= a.end
        run[n \in 0..Len(d)] ==
            IF n = 0 THEN { r \in S : holds(r) }
            ELSE run[n - 1] \cup { r \in S : \E c \in run[n - 1] : meets(r, c) }
        later == { r.start : r \in { q \in S : q.start > t } }
    IN  IF \E r \in S : holds(r)
        THEN <<STR_BUSY, STR_BOOKED_UNTIL \o
                 FormatHM(SetMax({ r.end : r \in run[Len(d)] }))>>
        ELSE IF later = {}
             THEN <<STR_FREE, STR_FREE_FOR_THE_DAY>>
             ELSE <<STR_FREE, STR_FREE_UNTIL \o FormatHM(SetMin(later))>>

\* lines 91-93 for one returned (now, ical_df) and one order of the sort:
\* what was raised, or the free_busy and message of line 93
TryOutcome(t, d, m) ==
    [raised |-> m.raised,
     exc |-> m.exc,
     free_busy |-> IF m.raised THEN <<>> ELSE check_room_status(m.df, t)[1],
     message |-> IF m.raised THEN <<>> ELSE check_room_status(m.df, t)[2],
     truth |-> Truth(d, t)]

\* lines 91-93 for everything get_todays_events may return
TryOutcomes ==
    UNION { { TryOutcome(t, d, m) : m \in merge_meetings(d) } :
            t \in Instants, d \in Calendars }

SysInit ==
    /\ availability = [k \in {} |-> <<>>]
    /\ pc = "top"
    /\ idx = 1
    /\ request = <<>>
    /\ response = <<>>
    /\ found = FALSE
    /\ served = <<>>
    /\ last_write = [k \in RoomKeySet |-> <<>>]
    /\ age = [k \in RoomKeySet |-> 0]
    /\ slept = 0
    /\ cycle_writes = [k \in RoomKeySet |-> 0]
    /\ cycle_failed = [k \in RoomKeySet |-> FALSE]
    /\ cycle_truth = [k \in RoomKeySet |-> <<>>]

FunIdle ==
    /\ df = <<>>
    /\ now = FirstTick
    /\ merged = Returned(<<>>)
    /\ remerged = Returned(<<>>)
    /\ sched = <<>>
    /\ status = <<STR_FREE, <<>>>>
    /\ ppc = "idle"

Init == SysInit /\ FunIdle

\* lines 87-89: a cycle starts with the first room
BeginCycle ==
    /\ pc = "top"
    /\ idx' = 1
    /\ pc' = IF Len(RoomKeys) = 0 THEN "sleep" ELSE "fetch"
    /\ cycle_writes' = [k \in RoomKeySet |-> 0]
    /\ cycle_failed' = [k \in RoomKeySet |-> FALSE]
    /\ cycle_truth' = [k \in RoomKeySet |-> <<>>]
    /\ UNCHANGED <<availability, last_write>>
    /\ UNCHANGED lookupvars
    /\ UNCHANGED timevars
    /\ UNCHANGED funvars

\* line 89: the for loop goes on with the next room whatever happened
AfterRoom(i, raised) == i + 1

\* the for loop takes the next room, or line 98 is reached
Advance(raised) ==
    /\ idx' = AfterRoom(idx, raised)
    /\ pc' = IF AfterRoom(idx, raised) > Len(RoomKeys) THEN "sleep" ELSE "fetch"

\* variant of lines 95-97 that only prints the traceback
ExceptSilent(k, e, truth) ==
    /\ Advance(TRUE)
    /\ cycle_failed' = [cycle_failed EXCEPT ![k] = TRUE]
    /\ cycle_truth' = [cycle_truth EXCEPT ![k] = truth]
    /\ UNCHANGED <<availability, last_write, age, slept, cycle_writes>>

\* lines 95-97, or the exception leaves update_availability
Except(k, e, truth) ==
    /\ IF Catches(e)
       THEN /\ availability' = Put(availability, k, ErrorRecord(rooms[k], e))
            /\ last_write' = [last_write EXCEPT ![k] = ErrorRecord(rooms[k], e)]
            /\ age' = [age EXCEPT ![k] = 0]
            /\ cycle_writes' = [cycle_writes EXCEPT ![k] = @ + 1]
            /\ Advance(TRUE)
       ELSE /\ pc' = "dead"
            /\ UNCHANGED <<availability, last_write, age, idx, cycle_writes>>
    /\ UNCHANGED slept
    /\ cycle_failed' = [cycle_failed EXCEPT ![k] = TRUE]
    /\ cycle_truth' = [cycle_truth EXCEPT ![k] = truth]

\* line 91 raises
RoomFetchFails ==
    /\ pc = "fetch"
    /\ \E e \in FetchErrors : Except(RoomKeys[idx], e, <<>>)
    /\ UNCHANGED lookupvars
    /\ UNCHANGED funvars

\* line 91 returns and line 92 raises
RoomMergeFails ==
    /\ pc = "fetch"
    /\ \E o \in { x \in TryOutcomes : x.raised } :
          Except(RoomKeys[idx], o.exc, o.truth)
    /\ UNCHANGED lookupvars
    /\ UNCHANGED funvars

\* lines 91-94 without an exception
RoomSucceeds ==
    /\ pc = "fetch"
    /\ \E o \in { x \in TryOutcomes : ~x.raised } :
          LET k == RoomKeys[idx]
          IN  /\ availability' =
                    Put(availability, k,
                        StatusRecord(rooms[k], o.free_busy, o.message))
              /\ last_write' =
                    [last_write EXCEPT
                       ![k] = StatusRecord(rooms[k], o.free_busy, o.message)]
              /\ age' = [age EXCEPT ![k] = 0]
              /\ cycle_writes' = [cycle_writes EXCEPT ![k] = @ + 1]
              /\ cycle_truth' = [cycle_truth EXCEPT ![k] = o.truth]
    /\ Advance(FALSE)
    /\ UNCHANGED <<cycle_failed, slept>>
    /\ UNCHANGED lookupvars
    /\ UNCHANGED funvars

\* line 18: requests.get is called without a timeout, and a server that
\* never answers keeps the call, and the thread, waiting
FetchBlocks ==
    /\ pc = "fetch"
    /\ pc' = "blocked"
    /\ UNCHANGED <<availability, last_write, idx, cycle_writes, cycle_failed,
                   cycle_truth>>
    /\ UNCHANGED lookupvars
    /\ UNCHANGED timevars
    /\ UNCHANGED funvars

\* line 98, then line 87
Sleep ==
    /\ pc = "sleep"
    /\ pc' = "top"
    /\ UNCHANGED <<availability, last_write, idx, cycle_writes, cycle_failed,
                   cycle_truth>>
    /\ UNCHANGED lookupvars
    /\ UNCHANGED timevars
    /\ UNCHANGED funvars

\* variant of line 104 with dict.setdefault
StoreAfterLookupSetdefault(avail, mac_address) ==
    Put(avail, Upper(mac_address), get_room(avail, mac_address))

\* the store after line 104: dict.get leaves the dict as it is
StoreAfterLookup(avail, mac_address) == avail

\* lines 102-104: GET /rooms/<mac_address>
Lookup ==
    /\ \E m \in Requests :
          /\ request' = m
          /\ response' = get_room(availability, m)
          /\ found' = (Upper(m) \in DOMAIN availability)
          /\ served' = IF Upper(m) \in RoomKeySet
                       THEN last_write[Upper(m)] ELSE <<>>
          /\ availability' = StoreAfterLookup(availability, m)
    /\ UNCHANGED <<last_write, pc, idx, cycle_writes, cycle_failed, cycle_truth>>
    /\ UNCHANGED timevars
    /\ UNCHANGED funvars

\* the steps of the update_availability thread
Refresher ==
    \/ BeginCycle
    \/ RoomFetchFails
    \/ RoomMergeFails
    \/ RoomSucceeds
    \/ FetchBlocks
    \/ Sleep

Next ==
    \/ BeginCycle
    \/ RoomFetchFails
    \/ RoomMergeFails
    \/ RoomSucceeds
    \/ FetchBlocks
    \/ Sleep
    \/ Lookup

Spec == Init /\ [][Next]_vars

\* the thread runs whenever it can: nothing but a call that does not
\* return keeps it from its next step
LiveSpec == Spec /\ WF_vars(Refresher)

----------------------------------------------------------------------------
(* The loop with a clock. A tick is SleepSeconds / TicksPerSleep seconds;  *)
(* age[k] is the number of ticks since the entry of room k was written,    *)
(* counted up to AgeCap, and slept the ticks spent in time.sleep.          *)

\* time.sleep(10)
SleepSeconds == 10

TicksPerSleep == 2

AgeCap == 3

Older(a) == IF a < AgeCap THEN a + 1 ELSE a

\* time passes while line 18 waits for the calendar server, and while
\* line 98 sleeps
Tick ==
    /\ \/ pc \in {"fetch", "blocked"}
       \/ pc = "sleep" /\ slept < TicksPerSleep
    /\ age' = [k \in RoomKeySet |-> Older(age[k])]
    /\ slept' = IF pc = "sleep" THEN slept + 1 ELSE slept
    /\ UNCHANGED <<availability, last_write, pc, idx, cycle_writes,
                   cycle_failed, cycle_truth>>
    /\ UNCHANGED lookupvars
    /\ UNCHANGED funvars

\* line 98 returns after SleepSeconds, then line 87
SleepReturns ==
    /\ pc = "sleep"
    /\ slept = TicksPerSleep
    /\ pc' = "top"
    /\ slept' = 0
    /\ UNCHANGED <<availability, last_write, age, idx, cycle_writes,
                   cycle_failed, cycle_truth>>
    /\ UNCHANGED lookupvars
    /\ UNCHANGED funvars

TimedNext ==
    \/ BeginCycle
    \/ RoomFetchFails
    \/ RoomMergeFails
    \/ RoomSucceeds
    \/ FetchBlocks
    \/ Tick
    \/ SleepReturns
    \/ Lookup

TimedSpec == Init /\ [][TimedNext]_vars

----------------------------------------------------------------------------
(* The functions on their own: merge_meetings is applied to every          *)
(* DataFrame of at most MaxLen rows, check_room_status to every result of  *)
(* it and to every DataFrame of at most SchedLen rows, at every instant.   *)

FunInit ==
    /\ SysInit
    /\ df \in SeqsUpTo(Intervals, MaxLen)
    /\ now = FirstTick
    /\ merged = Returned(<<>>)
    /\ remerged = Returned(<<>>)
    /\ sched = <<>>
    /\ status = <<STR_FREE, <<>>>>
    /\ ppc = "input"

\* merged_ical_df = merge_meetings(ical_df)
Merge ==
    /\ ppc = "input"
    /\ \E m \in merge_meetings(df) : merged' = m
    /\ ppc' = "merged"
    /\ UNCHANGED <<df, now, remerged, sched, status>>
    /\ UNCHANGED sysvars

\* merge_meetings(merge_meetings(df))
Remerge ==
    /\ ppc = "merged"
    /\ ~merged.raised
    /\ \E m \in merge_meetings(merged.df) : remerged' = m
    /\ ppc' = "remerged"
    /\ UNCHANGED <<df, now, merged, sched, status>>
    /\ UNCHANGED sysvars

\* check_room_status(merged_ical_df, now)
Evaluate ==
    /\ ppc = "merged"
    /\ ~merged.raised
    /\ sched' = merged.df
    /\ \E t \in Instants :
          /\ now' = t
          /\ status' = check_room_status(merged.df, t)
    /\ ppc' = "evaluated"
    /\ UNCHANGED <<df, merged, remerged>>
    /\ UNCHANGED sysvars

\* check_room_status(df, now) on a DataFrame that was not merged
EvaluateRaw ==
    /\ ppc = "input"
    /\ Len(df) <= SchedLen
    /\ sched' = df
    /\ \E t \in Instants :
          /\ now' = t
          /\ status' = check_room_status(df, t)
    /\ ppc' = "probed"
    /\ UNCHANGED <<df, merged, remerged>>
    /\ UNCHANGED sysvars

FunNext == Merge \/ Remerge \/ Evaluate \/ EvaluateRaw

FunSpec == FunInit /\ [][FunNext]_vars

----------------------------------------------------------------------------
(* Properties of merge_meetings *)

Range(s) == { s[i] : i \in 1..Len(s) }

\* every row is a TimeInterval: end present and start <= end
WellFormed(d) == \A i \in 1..Len(d) : d[i].end # None /\ d[i].start <= d[i].end

MergeDone == ppc \in {"merged", "remerged", "evaluated"}

\* what closed intervals with tick endpoints cover: the ticks, and the open
\* stretches between neighbouring ticks
Cover(d) ==
    { <<"at", t>> : t \in { u \in Instants : \E r \in Range(d) : r.start <= u /\ u <= r.end } }
    \cup
    { <<"after", t>> : t \in { u \in Instants : \E r \in Range(d) : r.start <= u /\ u + 1 <= r.end } }

\* C2: for every input of intervals with start <= end, the result of
\* merge_meetings is sorted ascending by start and consecutive result
\* intervals a, b satisfy a.end < b.start.
C2_MergeSortedDisjoint ==
    (MergeDone /\ WellFormed(df)) =>
        /\ ~merged.raised
        /\ \A i \in 1..(Len(merged.df) - 1) :
              /\ merged.df[i].start <= merged.df[i + 1].start
              /\ merged.df[i].end < merged.df[i + 1].start

\* an unsorted input with two touching rows and one row apart from them
C2_Witness ==
    /\ ppc = "merged"
    /\ WellFormed(df)
    /\ Len(df) = 3
    /\ df[1].start > df[2].start
    /\ \E i, j \in 1..3 : i # j /\ df[i].end = df[j].start /\ df[i].start < df[j].start
    /\ ~merged.raised
    /\ Len(merged.df) = 2

\* C3: the instants covered by the result of merge_meetings are the
\* instants covered by its input, and an empty input gives an empty result.
C3_MergeCoverage ==
    (MergeDone /\ WellFormed(df)) =>
        /\ ~merged.raised
        /\ Cover(merged.df) = Cover(df)
        /\ (df = <<>> => merged.df = <<>>)

\* a row nested inside an earlier, longer row is fused into it
C3_Witness ==
    /\ ppc = "merged"
    /\ WellFormed(df)
    /\ \E i, j \in 1..Len(df) :
          /\ df[i].start < df[j].start
          /\ df[j].end < df[i].end
    /\ ~merged.raised
    /\ Len(merged.df) < Len(df)

\* C4: merge_meetings is idempotent: merging a result of merge_meetings
\* gives that result again.
C4_MergeIdempotent ==
    (ppc = "remerged") => (~remerged.raised /\ remerged.df = merged.df)

\* a result of two intervals that differs from its input is merged again
C4_Witness ==
    /\ ppc = "remerged"
    /\ Len(df) = 3
    /\ Len(merged.df) = 2
    /\ ~remerged.raised

----------------------------------------------------------------------------
(* Properties of check_room_status *)

Evaluated == ppc \in {"evaluated", "probed"}

\* i.start <= t < i.end
Contains(r, t) == r.end # None /\ r.start <= t /\ t < r.end

\* C5: check_room_status returns 'busy' if and only if some interval i of
\* the schedule satisfies i.start <= now < i.end, and 'free' otherwise.
C5_BusyIffHalfOpen ==
    Evaluated =>
        /\ status[1] \in {STR_FREE, STR_BUSY}
        /\ (status[1] = STR_BUSY) <=> (\E r \in Range(sched) : Contains(r, now))

\* now is the end of one interval and inside no interval: the room is free
C5_Witness ==
    /\ Evaluated
    /\ \E r \in Range(sched) : r.start < now /\ r.end = now
    /\ status[1] = STR_FREE

Touching(a, b) == a.start <= b.end /\ b.start <= a.end

RECURSIVE Grow(_, _)
\* the intervals of S linked to those of C by overlapping or touching
Grow(S, C) ==
    LET D == C \cup { r \in S : \E c \in C : Touching(r, c) }
    IN  IF D = C THEN C ELSE Grow(S, D)

\* the maximal run of overlapping or touching intervals of d around t
RunAround(d, t) == Grow(Range(d), { r \in Range(d) : Contains(r, t) })

RunEnd(d, t) == SetMax({ r.end : r \in RunAround(d, t) })

\* C6: when merge_meetings followed by check_room_status reports 'busy'
\* for raw intervals df and now, the time in 'booked until ...' is the end
\* of the maximal run of overlapping or touching intervals around now.
C6_BookedUntilRunEnd ==
    (ppc = "evaluated" /\ WellFormed(df) /\ status[1] = STR_BUSY) =>
        status[2] = STR_BOOKED_UNTIL \o FormatHM(RunEnd(df, now))

\* back-to-back meetings: the current one ends where the next one starts,
\* a minute changes in between, and a later meeting stands apart
C6_Witness ==
    /\ ppc = "evaluated"
    /\ WellFormed(df)
    /\ status[1] = STR_BUSY
    /\ \E a, b \in Range(df) :
          /\ Contains(a, now)
          /\ a.end = b.start
          /\ a.end < b.end
          /\ FormatHM(a.end) # FormatHM(b.end)
          /\ status[2] = STR_BOOKED_UNTIL \o FormatHM(b.end)
    /\ Len(merged.df) = 2

LaterStarts(d, t) == { r.start : r \in { q \in Range(d) : q.start > t } }

\* C7: when check_room_status reports 'free', the detail is 'free for the
\* day' exactly when no interval of the schedule has start > now, and
\* otherwise 'free until' the smallest start among those with start > now.
C7_FreeDetail ==
    (Evaluated /\ status[1] = STR_FREE) =>
        /\ (LaterStarts(sched, now) = {}) <=> (status[2] = STR_FREE_FOR_THE_DAY)
        /\ (LaterStarts(sched, now) # {}) =>
              status[2] = STR_FREE_UNTIL \o FormatHM(SetMin(LaterStarts(sched, now)))

\* free between meetings: one is over, two are still to come
C7_Witness ==
    /\ Evaluated
    /\ status[1] = STR_FREE
    /\ \E r \in Range(sched) : r.end <= now /\ r.end # None
    /\ Cardinality(LaterStarts(sched, now)) = 2
    /\ status[2] # STR_FREE_FOR_THE_DAY

----------------------------------------------------------------------------
(* Properties of the refresh loop and of the lookup *)

NLPositions(s) == { i \in 1..Len(s) : s[i] = NL }

\* the position of the n-th line break of s
NthNL(s, n) ==
    CHOOSE p \in NLPositions(s) :
        Cardinality({ q \in NLPositions(s) : q <= p }) = n

NameOf(s) == SubSeq(s, 1, NthNL(s, 1) - 1)

TokenOf(s) == SubSeq(s, NthNL(s, 1) + 1, NthNL(s, 2) - 1)

\* what follows the state token, without the closing line break
DetailOf(s) == SubSeq(s, NthNL(s, 2) + 1, Len(s) - 1)

\* exactly three newline-terminated fields, the second a state token
ThreeFields(s) ==
    /\ Cardinality(NLPositions(s)) = 3
    /\ s[Len(s)] = NL
    /\ TokenOf(s) \in {STR_FREE, STR_BUSY, STR_ERROR}

\* the store entry of room k is the record its own calendar calls for
OwnRecord(k) ==
    /\ k \in DOMAIN availability
    /\ NameOf(availability[k]) = rooms[k].name
    /\ IF cycle_failed[k]
       THEN TokenOf(availability[k]) = STR_ERROR
       ELSE /\ cycle_truth[k] # <<>>
            /\ TokenOf(availability[k]) = cycle_truth[k][1]
            /\ DetailOf(availability[k]) = cycle_truth[k][2]

\* C1: in every refresh cycle every configured room gets its store entry
\* written exactly once, an 'error' record if its fetch, merge or evaluation
\* failed and the free/busy record of its own intervals otherwise; a failure
\* in one room skips no other room and does not end the loop.
C1_EveryRoomOncePerCycle ==
    /\ pc # "dead"
    /\ \A k \in RoomKeySet : cycle_writes[k] <= 1
    /\ \A k \in RoomKeySet : cycle_writes[k] = 1 => OwnRecord(k)
    /\ pc = "sleep" => \A k \in RoomKeySet : cycle_writes[k] = 1

\* a cycle is over in which the first room failed and the second did not
C1_Witness ==
    /\ pc = "sleep"
    /\ cycle_failed[RoomKeys[1]]
    /\ ~cycle_failed[RoomKeys[2]]
    /\ TokenOf(availability[RoomKeys[1]]) = STR_ERROR
    /\ TokenOf(availability[RoomKeys[2]]) = STR_BUSY

\* C8: in every reachable state and for every identifier, the string a
\* lookup returns consists of exactly three newline-terminated fields: a
\* display name, a state token 'free', 'busy' or 'error', and a detail.
C8_LookupThreeFields ==
    /\ \A m \in Requests : ThreeFields(get_room(availability, m))
    /\ request # <<>> => ThreeFields(response)

\* C9: a lookup for an identifier without an entry in the store returns the
\* sentinel with state 'free' and detail 'No data available', at any point
\* of the refresh loop.
C9_MissReturnsSentinel ==
    /\ \A m \in Requests :
          Upper(m) \notin DOMAIN availability =>
             /\ ThreeFields(get_room(availability, m))
             /\ TokenOf(get_room(availability, m)) = STR_FREE
             /\ DetailOf(get_room(availability, m)) = STR_NO_DATA
    /\ (request # <<>> /\ ~found) =>
          /\ TokenOf(response) = STR_FREE
          /\ DetailOf(response) = STR_NO_DATA

\* in the middle of a cycle: the first room has an entry, the second room
\* was looked up in lower case before its first refresh
C9_Witness ==
    /\ pc = "fetch"
    /\ idx = 2
    /\ RoomKeys[1] \in DOMAIN availability
    /\ RoomKeys[2] \notin DOMAIN availability
    /\ request # <<>>
    /\ request # Upper(request)
    /\ Upper(request) = RoomKeys[2]
    /\ ~found
    /\ response = Sentinel

\* C10: every refresh of a room yields a record and no exception escapes:
\* any failure of the fetch, the merge or the evaluation produces a record
\* with state 'error' whose detail has at most 30 characters.
C10_FailureGivesBoundedError ==
    /\ pc # "dead"
    /\ \A k \in RoomKeySet :
          cycle_failed[k] =>
             /\ k \in DOMAIN availability
             /\ TokenOf(availability[k]) = STR_ERROR
             /\ Len(DetailOf(availability[k])) <= 30
    /\ \A k \in DOMAIN availability :
          TokenOf(availability[k]) = STR_ERROR =>
             Len(DetailOf(availability[k])) <= 30

\* a failure whose message is longer than 30 characters was recorded
C10_Witness ==
    \E k \in RoomKeySet :
       /\ cycle_failed[k]
       /\ k \in DOMAIN availability
       /\ DetailOf(availability[k]) = Take(Msg404, 30)
       /\ Len(DetailOf(availability[k])) = 30

----------------------------------------------------------------------------
(* Properties of the loop over time *)

\* C11: the refresh loop has no terminal state and no backoff: every
\* configured room is fetched again in every later cycle, so the store entry
\* of each configured room is rewritten infinitely often.
C11_EveryRoomRewrittenForever ==
    \A k \in RoomKeySet :
       /\ []<>(cycle_writes[k] = 0)
       /\ []<>(cycle_writes[k] = 1)

\* C13: the record a lookup returns for a configured room was written at
\* most one refresh period (SleepSeconds) before the lookup.
C13_StalenessWithinOnePeriod ==
    [][ (lookupvars' # lookupvars /\ served' # <<>>) =>
           age[Upper(request')] * SleepSeconds <= TicksPerSleep * SleepSeconds
      ]_vars

\* C15: the calendar fetch has a bounded timeout: when the calendar source
\* of a room never responds, the thread still has a next step, which ends
\* the refresh of that room, so that the other rooms and the later cycles
\* follow.
C15_UnresponsiveFetchEnds ==
    (pc = "blocked") => ENABLED Refresher

----------------------------------------------------------------------------
(* Properties of the store *)

\* the state of the update_availability thread
refreshvars == <<pc, idx, cycle_writes, cycle_failed, cycle_truth>>

\* C12: a lookup never writes the store and never starts a fetch: a step
\* that answers a lookup leaves the store and the refresher as they are,
\* and every step that changes the store is a step of the refresh loop.
C12_LookupLeavesStore ==
    [][ /\ (lookupvars' # lookupvars) =>
              /\ availability' = availability
              /\ refreshvars' = refreshvars
        /\ (availability' # availability) =>
              /\ pc = "fetch"
              /\ idx' = idx + 1
              /\ lookupvars' = lookupvars ]_vars

\* in the middle of a cycle a lookup was answered with the entry of the
\* first room, and one for the second room is still to be written
C12_Witness ==
    /\ pc = "fetch"
    /\ idx = 2
    /\ request # <<>>
    /\ Upper(request) = RoomKeys[1]
    /\ found
    /\ response = availability[RoomKeys[1]]
    /\ RoomKeys[2] \notin DOMAIN availability

\* C14: identifier matching is case-insensitive: a lookup with any
\* upper/lower-case variant of the identifier of a configured room returns
\* what a lookup with the identifier as configured returns, the entry of
\* that room once it has one.
C14_CaseInsensitive ==
    \A i \in 1..Len(Config) : \A m \in Requests :
       Upper(m) = Upper(Config[i].mac_address) =>
          /\ get_room(availability, m) =
                get_room(availability, Config[i].mac_address)
          /\ RoomKeys[i] \in DOMAIN availability =>
                NameOf(get_room(availability, m)) = Config[i].name

\* the room configured in lower case has an entry, and a lookup in upper
\* case and one in lower case would both return it
C14_Witness ==
    \E i \in 1..Len(Config) : \E m \in Requests :
       /\ Config[i].mac_address # Upper(Config[i].mac_address)
       /\ m # Config[i].mac_address
       /\ Upper(m) = Upper(Config[i].mac_address)
       /\ RoomKeys[i] \in DOMAIN availability
       /\ request = Config[i].mac_address
       /\ found
       /\ response = get_room(availability, m)

\* C16: a lookup for a room that has been refreshed returns exactly the
\* record of the most recent store write for that room, whole, under every
\* interleaving with the refresh loop; an error record replaces an earlier
\* free/busy record.
C16_LookupReturnsLastWrite ==
    /\ \A k \in RoomKeySet :
          last_write[k] # <<>> =>
             /\ k \in DOMAIN availability
             /\ \A m \in Requests :
                   Upper(m) = k => get_room(availability, m) = last_write[k]
    /\ (request # <<>> /\ served # <<>>) => response = served

\* a lookup returned the busy record of a room whose entry has since been
\* replaced by an error record
C16_Witness ==
    /\ request # <<>>
    /\ Upper(request) \in RoomKeySet
    /\ served # <<>>
    /\ response = served
    /\ TokenOf(response) = STR_BUSY
    /\ TokenOf(last_write[Upper(request)]) = STR_ERROR
    /\ availability[Upper(request)] = last_write[Upper(request)]

\* C19: the keys of the store are configured room identifiers, an entry
\* once written is never removed, and once a refresh cycle has completed
\* every configured room has an entry, so that a lookup for a configured
\* room no longer returns the 'No data available' sentinel.
C19_StoreKeys ==
    /\ [](/\ DOMAIN availability \subseteq RoomKeySet
          /\ (pc = "sleep") => (DOMAIN availability = RoomKeySet)
          /\ (DOMAIN availability = RoomKeySet) =>
                \A m \in Requests :
                   Upper(m) \in RoomKeySet =>
                      get_room(availability, m) # Sentinel)
    /\ [][ /\ DOMAIN availability \subseteq DOMAIN availability'
           /\ (/\ lookupvars' # lookupvars
               /\ DOMAIN availability = RoomKeySet
               /\ Upper(request') \in RoomKeySet) =>
                 DetailOf(response') # STR_NO_DATA ]_vars

\* the first cycle is over, one of its rooms failed, and a lookup for that
\* room got its error record
C19_Witness ==
    /\ pc = "sleep"
    /\ DOMAIN availability = RoomKeySet
    /\ \E k \in RoomKeySet : cycle_failed[k] /\ Upper(request) = k
    /\ request # <<>>
    /\ found
    /\ TokenOf(response) = STR_ERROR

----------------------------------------------------------------------------
(* Properties of the functions on inputs outside their contract *)

\* the DataFrame with every absent end replaced by the start of its row
ZeroDuration(d) ==
    [i \in 1..Len(d) |->
        IF d[i].end = None THEN [start |-> d[i].start, end |-> d[i].start]
        ELSE d[i]]

\* C17: an input interval whose end is absent is treated by merge_meetings
\* as a zero-duration interval at its start: the merge completes without
\* failure and its result is a result for the same input with that interval
\* replaced by (start, start).
C17_AbsentEndIsZeroDuration ==
    (MergeDone /\ \E i \in 1..Len(df) : df[i].end = None) =>
        /\ ~merged.raised
        /\ merged \in merge_meetings(ZeroDuration(df))

\* the ends of the rows of the schedule that contain t
ContainingEnds(d, t) ==
    { d[i].end : i \in { j \in 1..Len(d) : Contains(d[j], t) } }

\* C18: on a schedule in which two intervals both contain now,
\* check_room_status returns 'busy' and the 'booked until' time is the
\* larger of the ends of the intervals that contain now.
C18_OverlapBookedUntilLargerEnd ==
    (/\ ppc = "probed"
     /\ \E i, j \in 1..Len(sched) :
           i # j /\ Contains(sched[i], now) /\ Contains(sched[j], now)) =>
        status = <<STR_BUSY,
                   STR_BOOKED_UNTIL \o FormatHM(SetMax(ContainingEnds(sched, now)))>>

====
